---- MODULE Spec2Model ----
(***************************************************************************)
(* Construction and forward pass of the U-Net of                           *)
(* steps/pytorch/architectures/unet.py: UNet, UNetMultitask, DownConv and  *)
(* UpConv.  A module object is a record of its attributes; `order` lists   *)
(* the attributes in the order they were assigned, so an attribute exists  *)
(* on the object exactly when its name occurs in `order`.  A tensor is     *)
(* its shape [c, h, w]; a layer is the record of its constructor           *)
(* arguments.  `warned` records that the divisibility warning was issued.   *)
(***************************************************************************)
EXTENDS Integers, Sequences, FiniteSets, TLC

\* ---- bounds of the hyperparameter space ----
MaxKernel == 3
MaxStride == 2
MaxRepeat == 2
MaxFilters == 2
MaxScale == 2
MaxOutputs == 2
MaxKwarg == 1
MaxTiles == 2

Objs == {1, 2}
InChannelChoices == {1, 3}
OutChannelChoices == {2}
DropoutChoices == {10}

VARIABLES hp, obj, args

vars == <<hp, obj, args>>

\* The keyword arguments of UNet.__init__ (dropout in percent).
HyperParams ==
  [conv_kernel : 1..MaxKernel, pool_kernel : 1..MaxKernel,
   pool_stride : 1..MaxStride, repeat_blocks : 0..MaxRepeat,
   n_filters : 1..MaxFilters, batch_norm : BOOLEAN,
   dropout : DropoutChoices, in_channels : InChannelChoices,
   out_channels : OutChannelChoices, kernel_scale : 1..MaxScale]

\* ---- layers ----
Layer(kind, cin, cout, kernel, stride, padding, output_padding) ==
  [kind |-> kind, cin |-> cin, cout |-> cout, kernel |-> kernel,
   stride |-> stride, padding |-> padding, output_padding |-> output_padding]

Conv2d(cin, cout, kernel, stride, padding) ==
  Layer("Conv2d", cin, cout, kernel, stride, padding, 0)

BatchNorm2d(num_features) ==
  Layer("BatchNorm2d", num_features, num_features, 0, 0, 0, 0)

ReLU == Layer("ReLU", 0, 0, 0, 0, 0, 0)

Dropout(p) == Layer("Dropout", p, p, 0, 0, 0, 0)

MaxPool2d(kernel, stride, padding) ==
  Layer("MaxPool2d", 0, 0, kernel, stride, padding, 0)

ConvTranspose2d(cin, cout, kernel, stride, padding, output_padding) ==
  Layer("ConvTranspose2d", cin, cout, kernel, stride, padding, output_padding)

\* ---- .utils: the padding calculator ----
\* int(ceil((kernel - stride) / 2))
get_downsample_pad(stride, kernel) == (kernel - stride + 1) \div 2

\* (padding, output_padding) of a transposed convolution that multiplies
\* the size by stride
get_upsample_pad(stride, kernel) ==
  IF kernel - stride >= 0 /\ (kernel - stride) % 2 = 0
    THEN <<(kernel - stride) \div 2, 0>>
    ELSE IF kernel - stride >= 0
      THEN <<(kernel - stride + 1) \div 2, 1>>
      ELSE <<0, stride - kernel>>

\* ---- objects ----
EmptySelf ==
  [cls |-> "none", status |-> "new", err |-> "none", order |-> << >>,
   warned |-> FALSE,
   conv_kernel |-> 0, conv_stride |-> 0, pool_kernel |-> 0, pool_stride |-> 0,
   repeat_blocks |-> 0, n_filters |-> 0, batch_norm |-> FALSE, dropout |-> 0,
   in_channels |-> 0, out_channels |-> 0, kernel_scale |-> 0, nr_outputs |-> 0,
   block_channels |-> 0, kernel_size |-> 0,
   input_block |-> << >>, down_convs |-> << >>, down_pools |-> << >>,
   floor_block |-> << >>, up_convs |-> << >>, up_samples |-> << >>,
   classification_block |-> << >>, output_layer |-> << >>,
   output_legs |-> << >>, down_conv |-> << >>, up_conv |-> << >>]

Attrs(self) == {self.order[k] : k \in 1..Len(self.order)}

HasAttr(self, name) == name \in Attrs(self)

Ok(v) == [err |-> "none", val |-> v]

Raise(e) == [err |-> e, val |-> << >>]

\* self.<name> = <the value a call returned>; an exception of the call
\* propagates and leaves the attribute unset.
Assign(self, name, res) ==
  IF self.err # "none" THEN self
  ELSE IF res.err # "none" THEN [self EXCEPT !.err = res.err]
  ELSE [self EXCEPT ![name] = res.val, !.order = Append(@, name)]

Finish(self) ==
  [self EXCEPT !.status = IF self.err = "none" THEN "constructed" ELSE "raised"]

\* ---- DownConv ----
DownConv_down_conv(self) ==
  IF ~HasAttr(self, "conv_stride") THEN Raise("AttributeError")
  ELSE
    LET stride == self.conv_stride
        padding == get_downsample_pad(stride, self.kernel_size)
    IN  IF self.batch_norm
          THEN Ok(<<Conv2d(self.in_channels, self.block_channels, self.kernel_size, stride, padding),
                    BatchNorm2d(self.block_channels), ReLU,
                    Conv2d(self.block_channels, self.block_channels, self.kernel_size, stride, padding),
                    BatchNorm2d(self.block_channels), ReLU,
                    Dropout(self.dropout)>>)
          ELSE Ok(<<Conv2d(self.in_channels, self.block_channels, self.kernel_size, stride, padding),
                    ReLU,
                    Conv2d(self.block_channels, self.block_channels, self.kernel_size, stride, padding),
                    ReLU,
                    Dropout(self.dropout)>>)

DownConv__init__(in_channels, kernel_size, batch_norm, dropout) ==
  LET s0 == [EmptySelf EXCEPT !.cls = "DownConv",
               !.in_channels = in_channels,
               !.block_channels = in_channels * 2,
               !.kernel_size = kernel_size,
               !.batch_norm = batch_norm,
               !.dropout = dropout,
               !.order = <<"in_channels", "block_channels", "kernel_size",
                           "batch_norm", "dropout">>]
  IN  Finish(Assign(s0, "down_conv", DownConv_down_conv(s0)))

\* ---- UpConv ----
UpConv_up_conv(self) ==
  IF ~HasAttr(self, "conv_stride") THEN Raise("AttributeError")
  ELSE
    LET stride == self.conv_stride
        padding == get_downsample_pad(stride, self.kernel_size)
    IN  IF self.batch_norm
          THEN Ok(<<Conv2d(self.in_channels, self.block_channels, self.kernel_size, stride, padding),
                    BatchNorm2d(self.block_channels), ReLU,
                    Conv2d(self.block_channels, self.block_channels, self.kernel_size, stride, padding),
                    BatchNorm2d(self.block_channels), ReLU,
                    Dropout(self.dropout)>>)
          ELSE Ok(<<Conv2d(self.in_channels, self.block_channels, self.kernel_size, stride, padding),
                    ReLU,
                    Conv2d(self.block_channels, self.block_channels, self.kernel_size, stride, padding),
                    ReLU,
                    Dropout(self.dropout)>>)

UpConv__init__(in_channels, kernel_size, batch_norm, dropout) ==
  LET s0 == [EmptySelf EXCEPT !.cls = "UpConv",
               !.in_channels = in_channels,
               !.block_channels = in_channels \div 2,
               !.kernel_size = kernel_size,
               !.batch_norm = batch_norm,
               !.dropout = dropout,
               !.order = <<"in_channels", "block_channels", "kernel_size",
                           "batch_norm", "dropout">>]
  IN  Finish(Assign(s0, "up_conv", UpConv_up_conv(s0)))

\* ---- UNet: assertions and attributes ----
DefaultKernelScale == 3

\* CheckAsserts without the test of the pooling kernel and stride
CheckAsserts_convOnly(h) ==
  IF h.conv_kernel % 2 # 1 THEN "AssertionError" ELSE "none"

CheckAsserts(h) ==
  IF h.conv_kernel % 2 # 1 THEN "AssertionError"
  ELSE IF ~(h.pool_stride > 1 \/ h.pool_kernel % 2 = 1) THEN "AssertionError"
  ELSE "none"

\* SetAttrs with the filter count taken from the extra keyword arguments
SetAttrs_kwargs(h, kwargs) ==
  [EmptySelf EXCEPT !.cls = "UNet", !.warned = TRUE,
     !.conv_kernel = h.conv_kernel,
     !.conv_stride = 1,
     !.pool_kernel = h.pool_kernel,
     !.pool_stride = h.pool_stride,
     !.repeat_blocks = h.repeat_blocks,
     !.n_filters = h.n_filters + kwargs,
     !.batch_norm = h.batch_norm,
     !.dropout = h.dropout,
     !.in_channels = h.in_channels,
     !.out_channels = h.out_channels,
     !.kernel_scale = h.kernel_scale,
     !.order = <<"conv_kernel", "conv_stride", "pool_kernel", "pool_stride",
                 "repeat_blocks", "n_filters", "batch_norm", "dropout",
                 "in_channels", "out_channels", "kernel_scale">>]

SetAttrs(h, kwargs) ==
  [EmptySelf EXCEPT !.cls = "UNet", !.warned = TRUE,
     !.conv_kernel = h.conv_kernel,
     !.conv_stride = 1,
     !.pool_kernel = h.pool_kernel,
     !.pool_stride = h.pool_stride,
     !.repeat_blocks = h.repeat_blocks,
     !.n_filters = h.n_filters,
     !.batch_norm = h.batch_norm,
     !.dropout = h.dropout,
     !.in_channels = h.in_channels,
     !.out_channels = h.out_channels,
     !.kernel_scale = h.kernel_scale,
     !.order = <<"conv_kernel", "conv_stride", "pool_kernel", "pool_stride",
                 "repeat_blocks", "n_filters", "batch_norm", "dropout",
                 "in_channels", "out_channels", "kernel_scale">>]

\* ---- UNet: the builders ----
RECURSIVE DownConvsLoop(_, _, _)
DownConvsLoop(self, i, acc) ==
  IF i >= self.repeat_blocks THEN Ok(acc)
  ELSE LET in_channels == self.n_filters * 2 ^ i
           d == DownConv__init__(in_channels, self.conv_kernel, self.batch_norm, self.dropout)
       IN  IF d.err # "none" THEN Raise(d.err)
           ELSE DownConvsLoop(self, i + 1, Append(acc, d))

_down_convs(self) == DownConvsLoop(self, 0, << >>)

RECURSIVE UpConvsLoop(_, _, _)
UpConvsLoop(self, i, acc) ==
  IF i >= self.repeat_blocks THEN Ok(acc)
  ELSE LET in_channels == self.n_filters * 2 ^ (i + 2)
           u == UpConv__init__(in_channels, self.conv_kernel, self.batch_norm, self.dropout)
       IN  IF u.err # "none" THEN Raise(u.err)
           ELSE UpConvsLoop(self, i + 1, Append(acc, u))

_up_convs(self) == UpConvsLoop(self, 0, << >>)

_down_pools(self) ==
  LET padding == get_downsample_pad(self.pool_stride, self.pool_kernel)
  IN  Ok([k \in 1..self.repeat_blocks |->
            MaxPool2d(self.pool_kernel, self.pool_stride, padding)])

_up_samples(self) ==
  LET kernel_scale == self.kernel_scale
      stride == self.pool_stride
      kernel_size == kernel_scale * stride
      pads == get_upsample_pad(stride, kernel_size)
  IN  Ok([k \in 1..self.repeat_blocks |->
            LET i == k - 1
            IN  ConvTranspose2d(self.n_filters * 2 ^ (i + 2),
                                self.n_filters * 2 ^ (i + 1),
                                kernel_size, stride, pads[1], pads[2])])

_input_block(self) ==
  LET stride == self.conv_stride
      padding == get_downsample_pad(stride, self.conv_kernel)
  IN  IF self.batch_norm
        THEN Ok(<<Conv2d(self.in_channels, self.n_filters, self.conv_kernel, stride, padding),
                  BatchNorm2d(self.n_filters), ReLU,
                  Conv2d(self.n_filters, self.n_filters, self.conv_kernel, stride, padding),
                  BatchNorm2d(self.n_filters), ReLU,
                  Dropout(self.dropout)>>)
        ELSE Ok(<<Conv2d(self.in_channels, self.n_filters, self.conv_kernel, stride, padding),
                  ReLU,
                  Conv2d(self.n_filters, self.n_filters, self.conv_kernel, stride, padding),
                  ReLU,
                  Dropout(self.dropout)>>)

_floor_block(self) ==
  LET in_channels == self.n_filters * 2 ^ self.repeat_blocks
      d == DownConv__init__(in_channels, self.conv_kernel, self.batch_norm, self.dropout)
  IN  IF d.err # "none" THEN Raise(d.err) ELSE Ok(<<d>>)

_classification_block(self) ==
  LET in_block == 2 * self.n_filters
      stride == self.conv_stride
      padding == get_downsample_pad(stride, self.conv_kernel)
  IN  IF self.batch_norm
        THEN Ok(<<Conv2d(in_block, self.n_filters, self.conv_kernel, stride, padding),
                  BatchNorm2d(self.n_filters), ReLU, Dropout(self.dropout),
                  Conv2d(self.n_filters, self.n_filters, self.conv_kernel, stride, padding),
                  BatchNorm2d(self.n_filters), ReLU>>)
        ELSE Ok(<<Conv2d(in_block, self.n_filters, self.conv_kernel, stride, padding),
                  ReLU, Dropout(self.dropout),
                  Conv2d(self.n_filters, self.n_filters, self.conv_kernel, stride, padding),
                  ReLU>>)

_output_layer(self) ==
  Ok(<<Conv2d(self.n_filters, self.out_channels, 1, 1, 0)>>)

\* ---- UNet.__init__ ----
\* the blocks in the order lines 37-44 assign them
Blocks ==
  <<"input_block", "down_convs", "down_pools", "floor_block", "up_convs",
    "up_samples", "classification_block", "output_layer">>

Build(self, name) ==
  CASE name = "input_block" -> _input_block(self)
    [] name = "down_convs" -> _down_convs(self)
    [] name = "down_pools" -> _down_pools(self)
    [] name = "floor_block" -> _floor_block(self)
    [] name = "up_convs" -> _up_convs(self)
    [] name = "up_samples" -> _up_samples(self)
    [] name = "classification_block" -> _classification_block(self)
    [] OTHER -> _output_layer(self)

RECURSIVE Assemble(_, _)
Assemble(self, k) ==
  IF k > Len(Blocks) THEN self
  ELSE Assemble(Assign(self, Blocks[k], Build(self, Blocks[k])), k + 1)

UNet__init__(h, kwargs) ==
  IF CheckAsserts(h) # "none"
    THEN Finish([EmptySelf EXCEPT !.cls = "UNet", !.err = CheckAsserts(h)])
    ELSE Finish(Assemble(SetAttrs(h, kwargs), 1))

\* ---- UNetMultitask.__init__ ----
OutputLegs(self) ==
  Ok([k \in 1..self.nr_outputs |-> _output_layer(self).val[1]])

UNetMultitask__init__(h, nr_outputs) ==
  LET base == UNet__init__([h EXCEPT !.kernel_scale = DefaultKernelScale], 0)
      s0 == [base EXCEPT !.cls = "UNetMultitask", !.status = "new"]
      s1 == Assign(s0, "nr_outputs", Ok(nr_outputs))
      s2 == Assign(s1, "output_legs", OutputLegs(s1))
  IN  Finish(s2)

\* ---- applying layers to a tensor shape ----
Tensor(c, h, w) == [c |-> c, h |-> h, w |-> w, err |-> "none"]

Failed(x) == [x EXCEPT !.err = "RuntimeError"]

ConvSize(n, l) == ((n + 2 * l.padding - l.kernel) \div l.stride) + 1

ConvTransposeSize(n, l) ==
  (n - 1) * l.stride - 2 * l.padding + l.kernel + l.output_padding

ApplyLayer(l, x) ==
  IF x.err # "none" THEN x
  ELSE IF l.kind = "Conv2d" THEN
    IF x.c # l.cin \/ l.padding < 0
         \/ x.h + 2 * l.padding < l.kernel \/ x.w + 2 * l.padding < l.kernel
      THEN Failed(x)
      ELSE [x EXCEPT !.c = l.cout, !.h = ConvSize(x.h, l), !.w = ConvSize(x.w, l)]
  ELSE IF l.kind = "BatchNorm2d" THEN
    IF x.c # l.cin THEN Failed(x) ELSE x
  ELSE IF l.kind = "MaxPool2d" THEN
    IF l.padding < 0 \/ 2 * l.padding > l.kernel
         \/ x.h + 2 * l.padding < l.kernel \/ x.w + 2 * l.padding < l.kernel
      THEN Failed(x)
      ELSE [x EXCEPT !.h = ConvSize(x.h, l), !.w = ConvSize(x.w, l)]
  ELSE IF l.kind = "ConvTranspose2d" THEN
    IF x.c # l.cin \/ l.padding < 0 \/ l.output_padding >= l.stride
      THEN Failed(x)
      ELSE [x EXCEPT !.c = l.cout, !.h = ConvTransposeSize(x.h, l),
                     !.w = ConvTransposeSize(x.w, l)]
  ELSE x

RECURSIVE Sequential(_, _)
Sequential(layers, x) ==
  IF layers = << >> THEN x
  ELSE Sequential(Tail(layers), ApplyLayer(Head(layers), x))

DownConv_forward(self, x) == Sequential(self.down_conv, x)

UpConv_forward(self, x) == Sequential(self.up_conv, x)

\* torch.cat((a, b), dim=1)
Cat(a, b) ==
  IF a.err # "none" THEN a
  ELSE IF b.err # "none" THEN b
  ELSE IF a.h # b.h \/ a.w # b.w THEN Failed(b)
  ELSE [b EXCEPT !.c = a.c + b.c]

\* ---- the forward pass ----
\* A run is the current tensor, the stored skip tensors and the trace of
\* the applications made so far.
Run(x) == [x |-> x, skips |-> << >>, trace |-> << >>]

Did(name, i, xin, xout) == [op |-> name, i |-> i, xin |-> xin, xout |-> xout]

RECURSIVE Encoder(_, _, _)
Encoder(self, k, r) ==
  IF k > Len(self.down_convs) \/ k > Len(self.down_pools) THEN r
  ELSE LET x1 == DownConv_forward(self.down_convs[k], r.x)
           x2 == ApplyLayer(self.down_pools[k], x1)
       IN  Encoder(self, k + 1,
             [x |-> x2, skips |-> Append(r.skips, x1),
              trace |-> r.trace \o <<Did("down_convs", k - 1, r.x, x1),
                                     Did("down_pools", k - 1, x1, x2)>>])

\* zip stops with the shortest of its three reversed arguments
DecoderStages(self, r) ==
  LET a == Len(r.skips)
      b == Len(self.up_convs)
      c == Len(self.up_samples)
      ab == IF a < b THEN a ELSE b
  IN  IF ab < c THEN ab ELSE c

RECURSIVE Decoder(_, _, _, _)
Decoder(self, j, n, r) ==
  IF j > n THEN r
  ELSE LET skip == r.skips[Len(r.skips) + 1 - j]
           up_sample == self.up_samples[Len(self.up_samples) + 1 - j]
           block == self.up_convs[Len(self.up_convs) + 1 - j]
           x1 == ApplyLayer(up_sample, r.x)
           x2 == Cat(skip, x1)
           x3 == UpConv_forward(block, x2)
       IN  Decoder(self, j + 1, n,
             [r EXCEPT !.x = x3,
                !.trace = @ \o <<Did("up_samples", Len(self.up_samples) - j, r.x, x1),
                                 Did("cat", Len(r.skips) - j, x1, x2),
                                 Did("up_convs", Len(self.up_convs) - j, x2, x3)>>])

Trunk(self, x) ==
  LET x0 == Sequential(self.input_block, x)
      r0 == [Run(x0) EXCEPT !.trace = <<Did("input_block", 0, x, x0)>>]
      r1 == Encoder(self, 1, r0)
      xf == Sequential(self.floor_block[1].down_conv, r1.x)
      r2 == [r1 EXCEPT !.x = xf, !.trace = Append(@, Did("floor_block", 0, r1.x, xf))]
      r3 == Decoder(self, 1, DecoderStages(self, r2), r2)
      xc == Sequential(self.classification_block, r3.x)
  IN  [r3 EXCEPT !.x = xc,
         !.trace = Append(@, Did("classification_block", 0, r3.x, xc))]

UNet_forward(self, x) ==
  LET r == Trunk(self, x)
      y == Sequential(self.output_layer, r.x)
  IN  [x |-> y, skips |-> r.skips,
       trace |-> Append(r.trace, Did("output_layer", 0, r.x, y)),
       outputs |-> <<y>>]

UNetMultitask_forward(self, x) ==
  LET r == Trunk(self, x)
      outputs == [k \in 1..Len(self.output_legs) |->
                    ApplyLayer(self.output_legs[k], r.x)]
  IN  [x |-> r.x, skips |-> r.skips,
       trace |-> r.trace \o [k \in 1..Len(outputs) |->
                               Did("output_legs", k - 1, r.x, outputs[k])],
       outputs |-> outputs]

\* ---- the state machine: one action per constructor call ----
\* hp is the hyperparameter configuration of the run, obj[o] the object a
\* constructor call worked on (as far as it got), args[o] the arguments of
\* that call which are not hyperparameters.
NoArgs == [kwargs |-> 0, nr_outputs |-> 0, in_channels |-> 0]

Init ==
  /\ hp \in HyperParams
  /\ obj = [o \in Objs |-> EmptySelf]
  /\ args = [o \in Objs |-> NoArgs]

NewUNet(o) ==
  /\ obj[o].status = "new"
  /\ \E kwargs \in 0..MaxKwarg :
       /\ obj' = [obj EXCEPT ![o] = UNet__init__(hp, kwargs)]
       /\ args' = [args EXCEPT ![o] = [NoArgs EXCEPT !.kwargs = kwargs]]
  /\ UNCHANGED hp

NewUNetMultitask(o) ==
  /\ obj[o].status = "new"
  /\ \E nr_outputs \in 0..MaxOutputs :
       /\ obj' = [obj EXCEPT ![o] = UNetMultitask__init__(hp, nr_outputs)]
       /\ args' = [args EXCEPT ![o] = [NoArgs EXCEPT !.nr_outputs = nr_outputs]]
  /\ UNCHANGED hp

NewDownConv(o) ==
  /\ obj[o].status = "new"
  /\ \E i \in 0..hp.repeat_blocks :
       LET in_channels == hp.n_filters * 2 ^ i
       IN  /\ obj' = [obj EXCEPT ![o] =
                 DownConv__init__(in_channels, hp.conv_kernel, hp.batch_norm, hp.dropout)]
           /\ args' = [args EXCEPT ![o] = [NoArgs EXCEPT !.in_channels = in_channels]]
  /\ UNCHANGED hp

NewUpConv(o) ==
  /\ obj[o].status = "new"
  /\ \E i \in 0..hp.repeat_blocks :
       LET in_channels == hp.n_filters * 2 ^ (i + 2)
       IN  /\ obj' = [obj EXCEPT ![o] =
                 UpConv__init__(in_channels, hp.conv_kernel, hp.batch_norm, hp.dropout)]
           /\ args' = [args EXCEPT ![o] = [NoArgs EXCEPT !.in_channels = in_channels]]
  /\ UNCHANGED hp

Next ==
  \E o \in Objs :
    \/ NewUNet(o)
    \/ NewUNetMultitask(o)
    \/ NewDownConv(o)
    \/ NewUpConv(o)

Spec == Init /\ [][Next]_vars

\* ---- vocabulary of the properties ----
Ended(o) == obj[o].status # "new"

IsUNet(o) == obj[o].cls = "UNet"

OddKernel(h) == h.conv_kernel % 2 = 1

ValidHyper(h) == OddKernel(h) /\ (h.pool_stride > 1 \/ h.pool_kernel % 2 = 1)

AssemblyOrder ==
  <<"input_block"
  , "down_convs"
  , "down_pools"
  , "floor_block"
  , "up_convs"
  , "up_samples"
  , "classification_block"
  , "output_layer">>

\* the inputs whose height and width are divisible by pool_stride ** repeat_blocks
Inputs(h) ==
  LET unit == h.pool_stride ^ h.repeat_blocks
  IN  {Tensor(h.in_channels, m * unit, n * unit) : m, n \in 1..MaxTiles}

Topology(self) ==
  <<self.input_block, self.down_convs, self.down_pools, self.floor_block,
    self.up_convs, self.up_samples, self.classification_block,
    self.output_layer, self.order, self.status, self.err>>

Min(S) == CHOOSE k \in S : \A j \in S : k <= j

Steps(f, name) == {k \in 1..Len(f.trace) : f.trace[k].op = name}

Convs(layers) == {k \in 1..Len(layers) : layers[k].kind = "Conv2d"}

\* the order of applications of a forward pass of depth R
ExpectedOps(R) ==
  <<<<"input_block", 0>>>>
  \o [k \in 1..2 * R |->
        IF k % 2 = 1 THEN <<"down_convs", (k - 1) \div 2>>
                     ELSE <<"down_pools", (k - 1) \div 2>>]
  \o <<<<"floor_block", 0>>>>
  \o [k \in 1..3 * R |->
        LET i == R - 1 - ((k - 1) \div 3)
        IN  IF k % 3 = 1 THEN <<"up_samples", i>>
            ELSE IF k % 3 = 2 THEN <<"cat", i>>
            ELSE <<"up_convs", i>>]
  \o <<<<"classification_block", 0>>, <<"output_layer", 0>>>>

Ops(f) == [k \in 1..Len(f.trace) |-> <<f.trace[k].op, f.trace[k].i>>]

\* C1: a UNet construction with hyperparameters that pass both assertions
\* runs to completion and has assigned the eight blocks in assembly order.
C1_AssemblyCompletes ==
  \A o \in Objs :
    (IsUNet(o) /\ Ended(o) /\ ValidHyper(hp)) =>
      /\ obj[o].status = "constructed"
      /\ obj[o].err = "none"
      /\ SubSeq(obj[o].order, Len(obj[o].order) - 7, Len(obj[o].order)) = AssemblyOrder

\* C2: on inputs divisible by pool_stride ** repeat_blocks every pooling
\* stage divides height and width by pool_stride, every upsampling stage
\* multiplies them by pool_stride, every concatenation joins tensors of equal
\* size, and the output has the height and width of the input.
C2_SizesReversible ==
  \A o \in Objs :
    (IsUNet(o) /\ Ended(o) /\ ValidHyper(hp)) =>
      /\ obj[o].status = "constructed"
      /\ \A x \in Inputs(hp) :
           LET f == UNet_forward(obj[o], x)
           IN  /\ f.x.err = "none"
               /\ \A k \in Steps(f, "down_pools") :
                    /\ f.trace[k].xout.h * hp.pool_stride = f.trace[k].xin.h
                    /\ f.trace[k].xout.w * hp.pool_stride = f.trace[k].xin.w
               /\ \A k \in Steps(f, "up_samples") :
                    /\ f.trace[k].xout.h = f.trace[k].xin.h * hp.pool_stride
                    /\ f.trace[k].xout.w = f.trace[k].xin.w * hp.pool_stride
               /\ \A k \in Steps(f, "cat") :
                    /\ f.trace[k].xin.h = f.skips[f.trace[k].i + 1].h
                    /\ f.trace[k].xin.w = f.skips[f.trace[k].i + 1].w
               /\ f.x.h = x.h /\ f.x.w = x.w

\* C3: the four module lists hold repeat_blocks modules each and a forward
\* pass runs repeat_blocks encoder stages and repeat_blocks decoder stages,
\* each stored skip tensor being consumed by exactly one decoder stage.
C3_SymmetricGraph ==
  \A o \in Objs :
    (IsUNet(o) /\ Ended(o) /\ ValidHyper(hp)) =>
      /\ obj[o].status = "constructed"
      /\ Len(obj[o].down_convs) = hp.repeat_blocks
      /\ Len(obj[o].down_pools) = hp.repeat_blocks
      /\ Len(obj[o].up_convs) = hp.repeat_blocks
      /\ Len(obj[o].up_samples) = hp.repeat_blocks
      /\ \A x \in Inputs(hp) :
           LET f == UNet_forward(obj[o], x)
           IN  /\ Len(f.skips) = hp.repeat_blocks
               /\ Cardinality(Steps(f, "down_convs")) = hp.repeat_blocks
               /\ Cardinality(Steps(f, "up_convs")) = hp.repeat_blocks
               /\ \A s \in 1..Len(f.skips) :
                    Cardinality({k \in Steps(f, "cat") : f.trace[k].i = s - 1}) = 1

\* C4: a UNetMultitask built with nr_outputs = N returns N outputs, one per
\* output leg and in leg order, every leg a 1x1 convolution from n_filters
\* to out_channels applied to the single tensor the classification block
\* produced, the trunk being run once.
C4_MultitaskOutputs ==
  \A o \in Objs :
    (obj[o].cls = "UNetMultitask" /\ Ended(o) /\ ValidHyper(hp)) =>
      /\ obj[o].status = "constructed"
      /\ Len(obj[o].output_legs) = args[o].nr_outputs
      /\ \A k \in 1..Len(obj[o].output_legs) :
           obj[o].output_legs[k] = Conv2d(hp.n_filters, hp.out_channels, 1, 1, 0)
      /\ \A x \in Inputs(hp) :
           LET f == UNetMultitask_forward(obj[o], x)
           IN  /\ Len(f.outputs) = args[o].nr_outputs
               /\ Cardinality(Steps(f, "classification_block")) = 1
               /\ Cardinality(Steps(f, "input_block")) = 1
               /\ Cardinality(Steps(f, "floor_block")) = 1
               /\ \A k \in 1..Len(f.outputs) :
                    /\ f.outputs[k].err = "none"
                    /\ f.outputs[k].c = hp.out_channels
                    /\ f.outputs[k] = ApplyLayer(obj[o].output_legs[k], f.x)

C6_RejectsBeforeBuilding ==
  \A o \in Objs :
    (obj[o].cls \in {"UNet", "UNetMultitask"} /\ Ended(o)) =>
      /\ (hp.conv_kernel % 2 = 0 \/ (hp.pool_stride <= 1 /\ hp.pool_kernel % 2 = 0)) =>
           /\ obj[o].status = "raised"
           /\ obj[o].err = "AssertionError"
           /\ obj[o].order = << >>
           /\ ~obj[o].warned
           /\ obj[o] = [EmptySelf EXCEPT !.cls = obj[o].cls, !.status = "raised",
                                         !.err = "AssertionError"]
      /\ ValidHyper(hp) => obj[o].err # "AssertionError"

C6_Witness ==
  /\ hp.conv_kernel % 2 = 1 /\ hp.pool_stride <= 1 /\ hp.pool_kernel % 2 = 0
  /\ IsUNet(1) /\ obj[1].err = "AssertionError"
  /\ obj[1].order = << >>

\* C7: the forward pass applies input_block, then down_convs[i] and
\* down_pools[i] for increasing i, then floor_block, then up_samples[i], the
\* concatenation with skip i and up_convs[i] for decreasing i, then
\* classification_block and output_layer; skip i is the output of
\* down_convs[i], taken before pooling.
C7_ForwardOrder ==
  \A o \in Objs :
    (IsUNet(o) /\ Ended(o) /\ ValidHyper(hp)) =>
      /\ obj[o].status = "constructed"
      /\ \A x \in Inputs(hp) :
           LET f == UNet_forward(obj[o], x)
           IN  /\ Ops(f) = ExpectedOps(hp.repeat_blocks)
               /\ \A k \in Steps(f, "down_convs") :
                    /\ f.skips[f.trace[k].i + 1] = f.trace[k].xout
                    /\ f.trace[k + 1].op = "down_pools"
                    /\ f.trace[k + 1].xin = f.trace[k].xout
               /\ \A k \in Steps(f, "cat") :
                    f.trace[k].xout = Cat(f.skips[f.trace[k].i + 1], f.trace[k].xin)

\* every Conv2d of the block has stride 1 and padding (conv_kernel - 1) / 2
\* and the block returns a tensor of the height and width it was given
KeepsSize(layers) ==
  /\ \A k \in Convs(layers) :
       /\ layers[k].stride = 1
       /\ layers[k].padding = (hp.conv_kernel - 1) \div 2
  /\ \A m, n \in 1..MaxTiles :
       LET x == Tensor(layers[Min(Convs(layers))].cin, m, n)
           y == Sequential(layers, x)
       IN  y.err = "none" /\ y.h = x.h /\ y.w = x.w

\* C8: with an odd conv_kernel every convolution block (input block,
\* DownConv, UpConv, classification block) is built from Conv2d layers of
\* stride 1 and padding (conv_kernel - 1) / 2 and keeps height and width, and
\* so does the 1x1 output layer.
C8_ConvKeepsSize ==
  \A o \in Objs :
    (Ended(o) /\ OddKernel(hp)) =>
      /\ obj[o].cls = "DownConv" =>
           obj[o].status = "constructed" /\ KeepsSize(obj[o].down_conv)
      /\ obj[o].cls = "UpConv" =>
           obj[o].status = "constructed" /\ KeepsSize(obj[o].up_conv)
      /\ (IsUNet(o) /\ ValidHyper(hp)) =>
           /\ obj[o].status = "constructed"
           /\ KeepsSize(obj[o].input_block)
           /\ KeepsSize(obj[o].floor_block[1].down_conv)
           /\ KeepsSize(obj[o].classification_block)
           /\ \A k \in 1..Len(obj[o].down_convs) : KeepsSize(obj[o].down_convs[k].down_conv)
           /\ \A k \in 1..Len(obj[o].up_convs) : KeepsSize(obj[o].up_convs[k].up_conv)
           /\ obj[o].output_layer = <<Conv2d(hp.n_filters, hp.out_channels, 1, 1, 0)>>
           /\ \A m, n \in 1..MaxTiles :
                LET y == Sequential(obj[o].output_layer, Tensor(hp.n_filters, m, n))
                IN  y.err = "none" /\ y.h = m /\ y.w = n

\* the channel counts a forward step of the given name and index receives
\* and yields, for n = n_filters and R = repeat_blocks
ChannelsIn(h, name, i) ==
  CASE name = "input_block" -> h.in_channels
    [] name = "down_convs" -> h.n_filters * 2 ^ i
    [] name = "down_pools" -> h.n_filters * 2 ^ (i + 1)
    [] name = "floor_block" -> h.n_filters * 2 ^ h.repeat_blocks
    [] name = "up_samples" -> h.n_filters * 2 ^ (i + 2)
    [] name = "cat" -> h.n_filters * 2 ^ (i + 1)
    [] name = "up_convs" -> h.n_filters * 2 ^ (i + 2)
    [] name = "classification_block" -> 2 * h.n_filters
    [] OTHER -> h.n_filters

ChannelsOut(h, name, i) ==
  CASE name = "input_block" -> h.n_filters
    [] name = "down_convs" -> h.n_filters * 2 ^ (i + 1)
    [] name = "down_pools" -> h.n_filters * 2 ^ (i + 1)
    [] name = "floor_block" -> h.n_filters * 2 ^ (h.repeat_blocks + 1)
    [] name = "up_samples" -> h.n_filters * 2 ^ (i + 1)
    [] name = "cat" -> h.n_filters * 2 ^ (i + 2)
    [] name = "up_convs" -> h.n_filters * 2 ^ (i + 1)
    [] name = "classification_block" -> h.n_filters
    [] OTHER -> h.out_channels

\* C9: along the forward pass every layer receives the channel count it was
\* built to accept: in_channels -> n, down_convs[i] n*2^i -> n*2^(i+1),
\* floor_block n*2^R -> n*2^(R+1), up_samples[i] n*2^(i+2) -> n*2^(i+1),
\* concatenation with skip i -> n*2^(i+2), up_convs[i] -> n*2^(i+1),
\* classification_block 2n -> n, output_layer -> out_channels.
C9_ChannelsConsistent ==
  \A o \in Objs :
    (IsUNet(o) /\ Ended(o) /\ ValidHyper(hp)) =>
      /\ obj[o].status = "constructed"
      /\ \A x \in Inputs(hp) :
           LET f == UNet_forward(obj[o], x)
           IN  /\ f.x.err = "none"
               /\ \A k \in 1..Len(f.trace) :
                    /\ f.trace[k].xout.err = "none"
                    /\ f.trace[k].xin.c = ChannelsIn(hp, f.trace[k].op, f.trace[k].i)
                    /\ f.trace[k].xout.c = ChannelsOut(hp, f.trace[k].op, f.trace[k].i)

====
